---- MODULE Spec2Model ----
(***************************************************************************)
(* Model of ProviderRpcClient (src/src/index.ts): the subscription maps,   *)
(* the address-scoped subscribe/unsubscribe closures, foldSubscriptions    *)
(* and the event fan-out, under JavaScript's run-to-completion scheduling  *)
(* (Spec); and of the exported functions, each called on bounded inputs:   *)
(* mergeTransactions (MergeSpec), foldSubscriptions (FoldSpec) and the     *)
(* token codec of src/src/models.ts (CodecSpec); of a caller that awaits   *)
(* each call before the next (SerialSpec); and of a history built from the *)
(* empty one by mergeTransactions (HistorySpec).                           *)
(***************************************************************************)
EXTENDS Bags, FiniteSets, Integers, Sequences, TLC

\* ---------------------------------------------------------------- bounds
MaxSubs == 2        \* logical subscriptions (ids) created in one behaviour
MaxPending == 2     \* async calls in flight at the same time

\* ---------------------------------------------------------------- inputs
Addresses == {"a1", "a2"}
NoAddress == "-"
NoId == 0
Ids == 1..(MaxSubs + 1)

GlobalEvents == {"disconnected", "networkChanged", "permissionsChanged", "loggedOut"}
ContractEvents == {"transactionsFound", "contractStateChanged"}
knownEvents == GlobalEvents \cup ContractEvents
UnknownEvent == "unknownEvent"
EventNames == knownEvents \cup {UnknownEvent}

NoFlags == [state |-> FALSE, transactions |-> FALSE]

\* ---------------------------------------------------------------- state
VARIABLES
  ton,                    \* this._ton != null
  idCounter,              \* the counter behind getUniqueId()
  subscriptions,          \* this._subscriptions: event name -> ids with a callback
  contractSubscriptions,  \* this._contractSubscriptions: address -> id -> flags
  created,                \* id -> the (eventName, address) its closures captured
  handles,                \* ids whose Subscription the caller holds, with its 'data' listener
  pending,                \* bag of suspended async calls (awaiting provider or microtask)
  fan,                    \* the event fan-out in progress on the call stack (snapshot and
                          \* registration record the map and the order at its start)
  order,                  \* history: registered ids, by the time of their latest registration
  served,                 \* history: addresses with a provider subscribe call that succeeded
                          \* since their listener set was last empty
  provider,               \* history: address -> what the last successful provider call
                          \* for it asked for
  last,                   \* the step just taken
  merge,                  \* a call of mergeTransactions: its arguments and the array after it
  fold,                   \* a call of foldSubscriptions: its arguments and its result
  codec                   \* a call of the token codec: schema, value, raw object and results

manager == <<ton, idCounter, subscriptions, contractSubscriptions, created,
             handles, pending, fan, order, served, provider, last>>

functions == <<merge, fold, codec>>

vars == <<manager, functions>>

\* ---------------------------------------------------------------- helpers
EmptyMap == [x \in {} |-> {}]

MapPut(m, k, v) == [x \in (DOMAIN m) \cup {k} |-> IF x = k THEN v ELSE m[x]]

MapDelete(m, k) == [x \in (DOMAIN m) \ {k} |-> m[x]]

\* JavaScript enumerates the integer-like keys of an object in ascending order.
RECURSIVE ObjectKeys(_)
ObjectKeys(S) ==
  IF S = {} THEN <<>>
  ELSE LET m == CHOOSE x \in S : \A y \in S : x <= y
       IN <<m>> \o ObjectKeys(S \ {m})

\* Object.values(contractSubscriptions): the flag objects, each with its identity.
ObjectValues(cs) ==
  LET ks == ObjectKeys(DOMAIN cs)
  IN [i \in 1..Len(ks) |-> [id |-> ks[i], state |-> cs[ks[i]].state,
                            transactions |-> cs[ks[i]].transactions]]

\* faulty variant: the flag is overwritten
Assign(flag, value) == value

\* flag ||= value (lines 397-401)
OrAssign(flag, value) == flag \/ value

\* foldSubscriptions: the loop with its early exit.
RECURSIVE FoldLoop(_, _, _, _)
FoldLoop(items, except, before, after) ==
  IF items = <<>> THEN [before |-> before, after |-> after]
  ELSE IF after.transactions /\ after.state THEN [before |-> before, after |-> after]
  ELSE LET item == Head(items)
           b == [state |-> OrAssign(before.state, item.state),
                 transactions |-> OrAssign(before.transactions, item.transactions)]
           a == IF item.id # except
                THEN [state |-> OrAssign(after.state, item.state),
                      transactions |-> OrAssign(after.transactions, item.transactions)]
                ELSE after
       IN FoldLoop(Tail(items), except, b, a)

\* faulty variant: the excepted entry is counted in after as well
foldIgnoringExcept(items, except) == FoldLoop(items, NoId, NoFlags, NoFlags)

foldSubscriptions(items, except) == FoldLoop(items, except, NoFlags, NoFlags)

\* _getEventSubscriptions: creates the event's (empty) map when it is missing.
GetEventSubscriptions(subs, eventName) ==
  IF eventName \in DOMAIN subs THEN subs ELSE MapPut(subs, eventName, {})

\* faulty variant: every listener asks for both kinds of notification
FlagsOfBoth(eventName) == [state |-> TRUE, transactions |-> TRUE]

\* The flag-pair a listener of eventName registers.
FlagsOf(eventName) ==
  [state |-> eventName = "contractStateChanged",
   transactions |-> eventName = "transactionsFound"]

\* The plain OR of all flag-pairs of a per-address map (reference, not code).
OrOf(cs) ==
  [state |-> \E i \in DOMAIN cs : cs[i].state,
   transactions |-> \E i \in DOMAIN cs : cs[i].transactions]

FlagsAt(cs, address) == IF address \in DOMAIN cs THEN cs[address] ELSE EmptyMap

RegisteredIn(S, eventName, id) == eventName \in DOMAIN S /\ id \in S[eventName]

\* subscribe() of id is suspended on a provider call
SubscribingIn(P, id) ==
  \E p \in BagToSet(P) : p.id = id /\ p.closure = "subscribe" /\ p.call # "none"

Registered(id) ==
  id \in DOMAIN created /\ RegisteredIn(subscriptions, created[id].eventName, id)

Subscribing(id) == SubscribingIn(pending, id)

Active(id) == Registered(id) /\ ~Subscribing(id)

Step(op, id, call, flags, error) ==
  [op |-> op, id |-> id, call |-> call, flags |-> flags, error |-> error]

Suspended(id, closure, call, address, flags) ==
  [id |-> id, closure |-> closure, call |-> call, address |-> address, flags |-> flags]

NoFan == [active |-> FALSE, eventName |-> "-", address |-> NoAddress,
          queue |-> <<>>, snapshot |-> {}, registration |-> <<>>, invoked |-> <<>>]

\* User code is on the stack: no fan-out, or a 'data' listener is running.
CallerCanAct ==
  \/ ~fan.active
  \/ /\ fan.invoked # <<>>
     /\ fan.invoked[Len(fan.invoked)] \in handles

\* what the provider has been asked for: nothing, or the flags of a subscribe call
NoInterest == [subscribed |-> FALSE, state |-> FALSE, transactions |-> FALSE]

Interest(flags) ==
  [subscribed |-> TRUE, state |-> flags.state, transactions |-> flags.transactions]

\* history: the provider's view after the call of a suspended closure succeeded
ProviderAfter(pv, p) ==
  IF p.call = "subscribe" THEN [pv EXCEPT ![p.address] = Interest(p.flags)]
  ELSE IF p.call = "unsubscribe" THEN [pv EXCEPT ![p.address] = NoInterest]
  ELSE pv

\* no call of mergeTransactions, foldSubscriptions or the codec has been made
NoMerge == [called |-> FALSE]

NoFold == [called |-> FALSE]

NoCodec == [called |-> FALSE]

Init ==
  /\ ton \in BOOLEAN
  /\ idCounter = 0
  /\ subscriptions = EmptyMap
  /\ contractSubscriptions = EmptyMap
  /\ created = EmptyMap
  /\ handles = {}
  /\ pending = EmptyBag
  /\ fan = NoFan
  /\ order = <<>>
  /\ served = {}
  /\ provider = [a \in Addresses |-> NoInterest]
  /\ last = Step("init", NoId, "none", NoFlags, "none")
  /\ merge = NoMerge
  /\ fold = NoFold
  /\ codec = NoCodec

\* ---------------------------------------------------------------- code conditions
\* getUniqueId(): the next id of a counter.
getUniqueId(counter) == counter + 1

\* faulty variant: every known event takes the address-scoped case
EventCaseAllContract(eventName) ==
  IF eventName \in knownEvents THEN "contract" ELSE "default"

\* the switch on eventName in subscribe()
EventCase(eventName) ==
  IF eventName \in GlobalEvents THEN "global"
  ELSE IF eventName \in ContractEvents THEN "contract"
  ELSE "default"

\* faulty variant: the guard against a second registration is missing
NeverRegistered(S, eventName, id) == FALSE

\* if (existingSubscriptions[id] != null) return;
AlreadyRegistered(S, eventName, id) == id \in S[eventName]

\* faulty variant: every registration is taken as a change of interest
InterestChangedAlways(before, after) == TRUE

\* before.transactions != after.transactions || before.state != after.state
InterestChanged(before, after) ==
  before.transactions # after.transactions \/ before.state # after.state

\* the `subscriptions` argument of the api.subscribe call in _subscribe
SubscribeInterest(f) == f.after

\* faulty variant: the catch block forgets the per-address flag entry
RollbackEventOnly(S, cs, eventName, address, id) ==
  [subscriptions |-> [S EXCEPT ![eventName] = @ \ {id}],
   contractSubscriptions |-> cs]

\* the catch block of _subscribe: delete both entries
Rollback(S, cs, eventName, address, id) ==
  [subscriptions |-> [S EXCEPT ![eventName] = @ \ {id}],
   contractSubscriptions |->
     IF address \in DOMAIN cs
     THEN [cs EXCEPT ![address] = MapDelete(@, id)]
     ELSE cs]

\* faulty variant: the reduced interest sent is the one before the removal
UnsubscribeCallBefore(f) ==
  IF ~f.after.transactions /\ ~f.after.state
  THEN [call |-> "unsubscribe", flags |-> NoFlags]
  ELSE IF f.before.transactions # f.after.transactions \/ f.before.state # f.after.state
  THEN [call |-> "subscribe", flags |-> f.before]
  ELSE [call |-> "none", flags |-> NoFlags]

\* the provider call _unsubscribe decides on, from the fold of the address
UnsubscribeCall(f) ==
  IF ~f.after.transactions /\ ~f.after.state
  THEN [call |-> "unsubscribe", flags |-> NoFlags]
  ELSE IF InterestChanged(f.before, f.after)
  THEN [call |-> "subscribe", flags |-> f.after]
  ELSE [call |-> "none", flags |-> NoFlags]

\* faulty variant: handlers kept in insertion order (latest registration last)
HandlersByRegistration(handlers) == SelectSeq(order, LAMBDA i : i \in handlers)

\* for (const handler of Object.values(handlers)): the array iterated
HandlersToInvoke(handlers) == ObjectKeys(handlers)

\* faulty variant: the loop walks the live map, so a handler deleted by an
\* earlier one is skipped
PendingLive(queue) ==
  SelectSeq(queue, LAMBDA i : i \in subscriptions[fan.eventName])

\* ... and the part of that array the loop still has to walk
PendingHandlers(queue) == queue

\* ---------------------------------------------------------------- closures
\* _subscribe of a global event (lines 298-304)
GlobalSubscribe(S, id, eventName, op) ==
  /\ subscriptions' =
       IF AlreadyRegistered(S, eventName, id) THEN S
       ELSE [S EXCEPT ![eventName] = @ \cup {id}]
  /\ contractSubscriptions' = contractSubscriptions
  /\ pending' = pending (+) SetToBag({Suspended(id, "subscribe", "none", NoAddress, NoFlags)})
  /\ last' = Step(op, id, "none", NoFlags, "none")

\* _unsubscribe of a global event (lines 305-307)
GlobalUnsubscribe(id, eventName) ==
  /\ subscriptions' = [subscriptions EXCEPT ![eventName] = @ \ {id}]
  /\ contractSubscriptions' = contractSubscriptions
  /\ pending' = pending (+) SetToBag({Suspended(id, "unsubscribe", "none", NoAddress, NoFlags)})
  /\ last' = Step("unsubscribe", id, "none", NoFlags, "none")

\* _subscribe of an address-scoped event (lines 315-344)
ContractSubscribe(S, id, eventName, address, op) ==
  IF AlreadyRegistered(S, eventName, id)
  THEN /\ subscriptions' = S
       /\ contractSubscriptions' = contractSubscriptions
       /\ pending' = pending (+) SetToBag({Suspended(id, "subscribe", "none", address, NoFlags)})
       /\ last' = Step(op, id, "none", NoFlags, "none")
  ELSE LET S1 == [S EXCEPT ![eventName] = @ \cup {id}]
           cs0 == IF address \in DOMAIN contractSubscriptions
                  THEN contractSubscriptions
                  ELSE MapPut(contractSubscriptions, address, EmptyMap)
           cs1 == [cs0 EXCEPT ![address] = MapPut(@, id, FlagsOf(eventName))]
           f == foldSubscriptions(ObjectValues(cs1[address]), id)
       IN IF InterestChanged(f.before, f.after)
          THEN IF ton
               THEN \* await this.api.subscribe({ address, subscriptions: after })
                    /\ subscriptions' = S1
                    /\ contractSubscriptions' = cs1
                    /\ pending' = pending (+) SetToBag({Suspended(id, "subscribe",
                                     "subscribe", address, SubscribeInterest(f))})
                    /\ last' = Step(op, id, "subscribe", SubscribeInterest(f), "none")
               ELSE \* this._ton is undefined: the call throws, the catch rolls back
                    LET r == Rollback(S1, cs1, eventName, address, id)
                    IN /\ subscriptions' = r.subscriptions
                       /\ contractSubscriptions' = r.contractSubscriptions
                       /\ pending' = pending
                       /\ last' = Step(op, id, "subscribe", SubscribeInterest(f), "TypeError")
          ELSE /\ subscriptions' = S1
               /\ contractSubscriptions' = cs1
               /\ pending' = pending (+) SetToBag({Suspended(id, "subscribe", "none", address, NoFlags)})
               /\ last' = Step(op, id, "none", NoFlags, "none")

\* _unsubscribe of an address-scoped event (lines 345-362)
ContractUnsubscribe(id, eventName, address) ==
  LET S1 == [subscriptions EXCEPT ![eventName] = @ \ {id}]
  IN IF address \notin DOMAIN contractSubscriptions
     THEN /\ subscriptions' = S1
          /\ contractSubscriptions' = contractSubscriptions
          /\ pending' = pending (+) SetToBag({Suspended(id, "unsubscribe", "none", address, NoFlags)})
          /\ last' = Step("unsubscribe", id, "none", NoFlags, "none")
     ELSE LET cs == contractSubscriptions[address]
              updates == IF id \in DOMAIN cs THEN id ELSE NoId
              f == foldSubscriptions(ObjectValues(cs), updates)
              c == UnsubscribeCall(f)
          IN /\ subscriptions' = S1
             /\ contractSubscriptions' =
                  [contractSubscriptions EXCEPT ![address] = MapDelete(@, id)]
             /\ IF c.call # "none" /\ ~ton
                THEN /\ pending' = pending
                     /\ last' = Step("unsubscribe", id, c.call, c.flags, "TypeError")
                ELSE /\ pending' = pending (+) SetToBag({Suspended(id, "unsubscribe",
                                      c.call, address, c.flags)})
                     /\ last' = Step("unsubscribe", id, c.call, c.flags, "none")

\* history of registrations: an id leaves when its callback is deleted and
\* goes to the end when a callback is (again) stored under it
RegisteredIds(S) == UNION {S[e] : e \in DOMAIN S}

\* history: the addresses that still have a listener keep their successful call
ServedAfter(sv, cs) == {a \in sv : a \in DOMAIN cs /\ DOMAIN cs[a] # {}}

OrderAfter(o, S) ==
  LET kept == SelectSeq(o, LAMBDA i : i \in RegisteredIds(S))
  IN kept \o ObjectKeys(RegisteredIds(S) \ {kept[i] : i \in 1..Len(kept)})

\* ---------------------------------------------------------------- actions
\* provider.subscribe(eventName, params) (lines 247-370), up to its first suspension
Subscribe(eventName, address) ==
  /\ CallerCanAct
  /\ idCounter < MaxSubs
  /\ BagCardinality(pending) < MaxPending
  /\ LET S == GetEventSubscriptions(subscriptions, eventName)
         id == getUniqueId(idCounter)
         kind == EventCase(eventName)
     IN /\ idCounter' = id
        /\ IF kind = "global"
           THEN /\ created' = MapPut(created, id, [eventName |-> eventName, address |-> NoAddress])
                /\ GlobalSubscribe(S, id, eventName, "subscribe")
           ELSE IF kind = "contract"
           THEN /\ created' = MapPut(created, id, [eventName |-> eventName, address |-> address])
                /\ ContractSubscribe(S, id, eventName, address, "subscribe")
           ELSE /\ created' = created
                /\ subscriptions' = S
                /\ contractSubscriptions' = contractSubscriptions
                /\ pending' = pending
                /\ last' = Step("subscribe", id, "none", NoFlags, "UnknownEvent")
  /\ UNCHANGED <<ton, handles, fan>>
  /\ order' = OrderAfter(order, subscriptions')
  /\ served' = ServedAfter(served, contractSubscriptions')
  /\ UNCHANGED <<provider, functions>>

\* subscription.subscribe() on a handle the caller holds (lines 268-273)
Resubscribe(id) ==
  /\ CallerCanAct
  /\ id \in handles
  /\ BagCardinality(pending) < MaxPending
  /\ LET eventName == created[id].eventName
     IN IF EventCase(eventName) = "global"
        THEN GlobalSubscribe(subscriptions, id, eventName, "resubscribe")
        ELSE ContractSubscribe(subscriptions, id, eventName, created[id].address, "resubscribe")
  /\ UNCHANGED <<ton, idCounter, created, handles, fan>>
  /\ order' = OrderAfter(order, subscriptions')
  /\ served' = ServedAfter(served, contractSubscriptions')
  /\ UNCHANGED <<provider, functions>>

\* subscription.unsubscribe() on a handle the caller holds (lines 275-280)
Unsubscribe(id) ==
  /\ CallerCanAct
  /\ id \in handles
  /\ BagCardinality(pending) < MaxPending
  /\ LET eventName == created[id].eventName
     IN IF EventCase(eventName) = "global"
        THEN GlobalUnsubscribe(id, eventName)
        ELSE ContractUnsubscribe(id, eventName, created[id].address)
  /\ UNCHANGED <<ton, idCounter, created, handles, fan>>
  /\ order' = OrderAfter(order, subscriptions')
  /\ served' = ServedAfter(served, contractSubscriptions')
  /\ UNCHANGED <<provider, functions>>

\* a suspended call continues: the provider answered, or the microtask ran
Resolve(p) ==
  /\ ~fan.active
  /\ BagIn(p, pending)
  /\ pending' = pending (-) SetToBag({p})
  /\ handles' = IF p.closure = "subscribe" THEN handles \cup {p.id} ELSE handles
  /\ last' = Step(IF p.closure = "subscribe" THEN "resolveSubscribe" ELSE "resolveUnsubscribe", p.id, p.call, p.flags, "none")
  /\ UNCHANGED <<ton, idCounter, subscriptions, contractSubscriptions, created, fan>>
  /\ order' = OrderAfter(order, subscriptions')
  /\ served' = ServedAfter(IF p.call = "subscribe" THEN served \cup {p.address} ELSE served,
                         contractSubscriptions')
  /\ provider' = ProviderAfter(provider, p)
  /\ UNCHANGED functions

\* the provider rejected the call a closure awaits
Reject(p) ==
  /\ ~fan.active
  /\ BagIn(p, pending)
  /\ p.call # "none"
  /\ pending' = pending (-) SetToBag({p})
  /\ IF p.closure = "subscribe"
     THEN LET r == Rollback(subscriptions, contractSubscriptions,
                            created[p.id].eventName, p.address, p.id)
          IN /\ subscriptions' = r.subscriptions
             /\ contractSubscriptions' = r.contractSubscriptions
             /\ last' = Step("rejectSubscribe", p.id, p.call, p.flags, "ProviderError")
     ELSE /\ UNCHANGED <<subscriptions, contractSubscriptions>>
          /\ last' = Step("rejectUnsubscribe", p.id, p.call, p.flags, "ProviderError")
  /\ UNCHANGED <<ton, idCounter, created, handles, fan>>
  /\ order' = OrderAfter(order, subscriptions')
  /\ served' = ServedAfter(served, contractSubscriptions')
  /\ UNCHANGED <<provider, functions>>

\* window.ton arrives ('ton#initialized'), lines 185-192
Initialize ==
  /\ ~ton
  /\ ~fan.active
  /\ ton' = TRUE
  /\ last' = Step("initialized", NoId, "none", NoFlags, "none")
  /\ UNCHANGED <<idCounter, subscriptions, contractSubscriptions, created, handles,
                 pending, fan>>
  /\ order' = OrderAfter(order, subscriptions')
  /\ served' = ServedAfter(served, contractSubscriptions')
  /\ UNCHANGED <<provider, functions>>

\* the provider fires eventName: the listener of lines 212-220 starts
FireEvent(eventName, address) ==
  /\ ton
  /\ ~fan.active
  /\ last' = Step("fire", NoId, "none", NoFlags, "none")
  /\ IF eventName \notin DOMAIN subscriptions
     THEN fan' = NoFan
     ELSE fan' = [active |-> TRUE, eventName |-> eventName, address |-> address,
                  queue |-> HandlersToInvoke(subscriptions[eventName]),
                  snapshot |-> subscriptions[eventName],
                  registration |-> SelectSeq(order, LAMBDA i : i \in subscriptions[eventName]),
                  invoked |-> <<>>]
  /\ UNCHANGED <<ton, idCounter, subscriptions, contractSubscriptions, created,
                 handles, pending>>
  /\ order' = OrderAfter(order, subscriptions')
  /\ served' = ServedAfter(served, contractSubscriptions')
  /\ UNCHANGED <<provider, functions>>

\* handler(data) for the next handler of the array (line 218)
FanStep ==
  /\ fan.active
  /\ PendingHandlers(fan.queue) # <<>>
  /\ LET q == PendingHandlers(fan.queue)
     IN /\ fan' = [fan EXCEPT !.queue = Tail(q), !.invoked = Append(fan.invoked, Head(q))]
        /\ last' = Step("notify", Head(q), "none", NoFlags, "none")
  /\ UNCHANGED <<ton, idCounter, subscriptions, contractSubscriptions, created,
                 handles, pending>>
  /\ order' = OrderAfter(order, subscriptions')
  /\ served' = ServedAfter(served, contractSubscriptions')
  /\ UNCHANGED <<provider, functions>>

\* the loop is over and the listener returns
FanDone ==
  /\ fan.active
  /\ PendingHandlers(fan.queue) = <<>>
  /\ fan' = NoFan
  /\ last' = Step("fanDone", NoId, "none", NoFlags, "none")
  /\ UNCHANGED <<ton, idCounter, subscriptions, contractSubscriptions, created,
                 handles, pending>>
  /\ order' = OrderAfter(order, subscriptions')
  /\ served' = ServedAfter(served, contractSubscriptions')
  /\ UNCHANGED <<provider, functions>>

PayloadAddresses(eventName) ==
  IF eventName \in ContractEvents THEN Addresses ELSE {NoAddress}

Next ==
  \/ \E eventName \in EventNames : \E address \in PayloadAddresses(eventName) :
       Subscribe(eventName, address)
  \/ \E id \in Ids : Resubscribe(id)
  \/ \E id \in Ids : Unsubscribe(id)
  \/ \E p \in BagToSet(pending) : Resolve(p)
  \/ \E p \in BagToSet(pending) : Reject(p)
  \/ Initialize
  \/ \E eventName \in knownEvents : \E address \in PayloadAddresses(eventName) :
       FireEvent(eventName, address)
  \/ FanStep
  \/ FanDone

Spec == Init /\ [][Next]_vars

\* ---------------------------------------------------------------- mergeTransactions
MaxKnown == 4       \* transactions of a known history sorted by descending logical time
MaxAnyOrder == 2    \* transactions of a known history in any order
MaxBatch == 2       \* transactions of an incoming batch

\* logical times: decimal strings, written as the sequences of their digits
Lts == {<<5>>, <<1, 0>>, <<1, 1>>, <<1, 8>>, <<1, 9>>, <<2, 0>>}

MinLts == {<<5>>, <<1, 0>>}

Transactions == [lt : Lts]

BatchInfos == [batchType : {"old", "new"}, minLt : MinLts, maxLt : Lts]

SeqsUpTo(S, n) == UNION {[1..k -> S] : k \in 0..n}

\* the number a logical time denotes (reference, not code)
RECURSIVE LtValue(_)
LtValue(lt) ==
  IF lt = <<>> THEN 0 ELSE 10 * LtValue(SubSeq(lt, 1, Len(lt) - 1)) + lt[Len(lt)]

SortedDescending(txs) ==
  \A i \in 1..(Len(txs) - 1) : LtValue(txs[i].lt) > LtValue(txs[i + 1].lt)

\* the histories mergeTransactions is called on
KnownInputs ==
  SeqsUpTo(Transactions, MaxAnyOrder)
    \cup {k \in SeqsUpTo(Transactions, MaxKnown) : SortedDescending(k)}

\* String.prototype.localeCompare on strings of digits: code unit by code unit,
\* a proper prefix first
RECURSIVE localeCompare(_, _)
localeCompare(a, b) ==
  IF a = <<>> /\ b = <<>> THEN 0
  ELSE IF a = <<>> THEN -1
  ELSE IF b = <<>> THEN 1
  ELSE IF Head(a) < Head(b) THEN -1
  ELSE IF Head(a) > Head(b) THEN 1
  ELSE localeCompare(Tail(a), Tail(b))

\* faulty variant: every batch is taken for a 'new' one
IsOldBatchNever(info) == FALSE

\* info.batchType == 'old' (line 93)
IsOldBatch(info) == info.batchType = "old"

\* faulty variant: the loop skips nothing
SkipNone(knownTransactions, maxLt, i) == i

\* the while loop of lines 109-115: the index it stops at
RECURSIVE SkipIndex(_, _, _)
SkipIndex(knownTransactions, maxLt, i) ==
  IF i < Len(knownTransactions)
     /\ localeCompare(knownTransactions[i + 1].lt, maxLt) >= 0
  THEN SkipIndex(knownTransactions, maxLt, i + 1)
  ELSE i

\* faulty variant: the inserted batch replaces the element at the index
SpliceReplacing(array, start, items) ==
  SubSeq(array, 1, start) \o items \o SubSeq(array, start + 2, Len(array))

\* array.splice(start, 0, ...items), and array.push(...items) for start = length
Splice(array, start, items) ==
  SubSeq(array, 1, start) \o items \o SubSeq(array, start + 1, Len(array))

\* mergeTransactions (lines 88-120): the array knownTransactions holds on return
mergeTransactions(knownTransactions, newTransactions, info) ==
  IF IsOldBatch(info)
  THEN Splice(knownTransactions, Len(knownTransactions), newTransactions)
  ELSE IF Len(knownTransactions) = 0
  THEN Splice(knownTransactions, Len(knownTransactions), newTransactions)
  ELSE Splice(knownTransactions, SkipIndex(knownTransactions, info.maxLt, 0),
              newTransactions)

\* the client exists and is idle while the exported functions are exercised
ManagerIdle ==
  /\ ton = FALSE
  /\ idCounter = 0
  /\ subscriptions = EmptyMap
  /\ contractSubscriptions = EmptyMap
  /\ created = EmptyMap
  /\ handles = {}
  /\ pending = EmptyBag
  /\ fan = NoFan
  /\ order = <<>>
  /\ served = {}
  /\ provider = [a \in Addresses |-> NoInterest]
  /\ last = Step("init", NoId, "none", NoFlags, "none")

MergeInit ==
  /\ ManagerIdle
  /\ \E k \in KnownInputs :
       merge = [called |-> FALSE, before |-> k, knownTransactions |-> k,
                newTransactions |-> <<>>,
                info |-> [batchType |-> "old", minLt |-> <<5>>, maxLt |-> <<5>>]]
  /\ fold = NoFold
  /\ codec = NoCodec

\* mergeTransactions(knownTransactions, newTransactions, info) is called once
MergeTransactions ==
  /\ ~merge.called
  /\ \E newTransactions \in SeqsUpTo(Transactions, MaxBatch) : \E info \in BatchInfos :
       merge' = [called |-> TRUE, before |-> merge.knownTransactions,
                 knownTransactions |->
                   mergeTransactions(merge.knownTransactions, newTransactions, info),
                 newTransactions |-> newTransactions,
                 info |-> info]
  /\ UNCHANGED <<manager, fold, codec>>

MergeNext == MergeTransactions

MergeSpec == MergeInit /\ [][MergeNext]_vars

\* ---------------------------------------------------------------- foldSubscriptions as a function
MaxItems == 3       \* flag-pairs in the iterable given to foldSubscriptions

FlagPairs == [state : BOOLEAN, transactions : BOOLEAN]

\* the iterable: flag objects, each with its identity (its position at the call)
Identified(pairs) ==
  [i \in 1..Len(pairs) |-> [id |-> i, state |-> pairs[i].state,
                            transactions |-> pairs[i].transactions]]

InsertAt(items, pos, item) ==
  SubSeq(items, 1, pos - 1) \o <<item>> \o SubSeq(items, pos, Len(items))

FoldInit ==
  /\ ManagerIdle
  /\ merge = NoMerge
  /\ fold = [called |-> FALSE, grown |-> FALSE, items |-> <<>>, except |-> NoId,
             result |-> [before |-> NoFlags, after |-> NoFlags],
             previous |-> [before |-> NoFlags, after |-> NoFlags]]
  /\ codec = NoCodec

\* foldSubscriptions(items, except) is called; except = NoId when none is given
FoldSubscriptions ==
  /\ ~fold.called
  /\ \E pairs \in SeqsUpTo(FlagPairs, MaxItems) : \E except \in 0..Len(pairs) :
       LET items == Identified(pairs)
       IN fold' = [called |-> TRUE, grown |-> FALSE, items |-> items, except |-> except,
                   result |-> foldSubscriptions(items, except),
                   previous |-> [before |-> NoFlags, after |-> NoFlags]]
  /\ UNCHANGED <<manager, merge, codec>>

\* one more flag-pair joins the iterable at pos and foldSubscriptions is called again
FoldWithAdded ==
  /\ fold.called
  /\ ~fold.grown
  /\ \E pair \in FlagPairs : \E pos \in 1..(Len(fold.items) + 1) :
       LET item == [id |-> Len(fold.items) + 1, state |-> pair.state,
                    transactions |-> pair.transactions]
           items == InsertAt(fold.items, pos, item)
       IN fold' = [fold EXCEPT !.grown = TRUE, !.items = items,
                               !.result = foldSubscriptions(items, fold.except),
                               !.previous = fold.result]
  /\ UNCHANGED <<manager, merge, codec>>

FoldNext ==
  \/ FoldSubscriptions
  \/ FoldWithAdded

FoldSpec == FoldInit /\ [][FoldNext]_vars

\* ---------------------------------------------------------------- token codec (src/src/models.ts)
MaxParams == 2      \* entries of a schema
MaxArray == 2       \* elements of an array token
MaxEntries == 1     \* key/value pairs of a map token

\* JavaScript values: a string, an Address, an array, a plain object,
\* undefined, and TypeError for an evaluation that throws one
Scalar(s) == [kind |-> "scalar", value |-> s, items |-> <<>>, fields |-> EmptyMap]

\* new Address(s); s is "undefined" when the argument is undefined
NewAddress(s) == [kind |-> "address", value |-> s, items |-> <<>>, fields |-> EmptyMap]

Array(items) == [kind |-> "array", value |-> "", items |-> items, fields |-> EmptyMap]

Object(fields) == [kind |-> "object", value |-> "", items |-> <<>>, fields |-> fields]

Undefined == [kind |-> "undefined", value |-> "", items |-> <<>>, fields |-> EmptyMap]

TypeError == [kind |-> "TypeError", value |-> "", items |-> <<>>, fields |-> EmptyMap]

Throws(results) == \E i \in DOMAIN results : results[i].kind = "TypeError"

\* object[name]
Property(object, name) ==
  IF name \in DOMAIN object.fields THEN object.fields[name] ELSE Undefined

\* ABI type strings, written as the sequences of their lexemes:
\* "uint8[]" is <<"uint8", "[]">>, "map(uint8,tuple)" is <<"map(", "uint8", ",", "tuple", ")">>
BaseKinds == {"uint8", "address", "tuple"}

KeyKinds == {"uint8", "address"}

AbiTypes ==
  {<<k>> : k \in BaseKinds} \cup {<<k, "[]">> : k \in BaseKinds}
    \cup {<<"map(", k, ",", v, ")">> : k \in KeyKinds, v \in BaseKinds}
    \cup {<<"map(", k, ",", v, "[]", ")">> : k \in KeyKinds, v \in BaseKinds}

AbiParam(name, type, components) ==
  [name |-> name, type |-> type, components |-> components]

\* the components a tuple kind comes with; <<>> is no components
ComponentLists ==
  { <<>>,
    <<AbiParam("x", <<"uint8">>, <<>>)>>,
    <<AbiParam("x", <<"address">>, <<>>), AbiParam("y", <<"uint8">>, <<>>)>>,
    <<AbiParam("t", <<"tuple">>, <<AbiParam("x", <<"uint8">>, <<>>)>>)>> }

HasTuple(type) == \E i \in 1..Len(type) : type[i] = "tuple"

AbiParams(name) ==
  {p \in [name : {name}, type : AbiTypes, components : ComponentLists] :
     HasTuple(p.type) \/ p.components = <<>>}

ParamNames == <<"a", "b", "c">>

\* the entries that follow the first one are of the plain kinds
PlainParams(name) == {AbiParam(name, <<k>>, <<>>) : k \in {"uint8", "address"}}

\* schemas: an entry of any type, and up to MaxParams - 1 plain entries after it
RECURSIVE PlainSchemas(_, _)
PlainSchemas(from, n) ==
  IF n = 0 THEN {<<>>}
  ELSE {<<p>> \o r : p \in PlainParams(ParamNames[from]), r \in PlainSchemas(from + 1, n - 1)}

Schemas ==
  UNION {{<<p>> \o r : p \in AbiParams(ParamNames[1]), r \in PlainSchemas(2, n - 1)} :
           n \in 1..MaxParams}

ScalarStrings == {"0", "1"}

AddressStrings == {"0:a", "0:b"}

\* the typed values that conform to a kind, to a list of components and to a parameter
RECURSIVE ValuesOfKind(_, _), ObjectsOf(_)
ValuesOfKind(kind, components) ==
  IF kind = "tuple" THEN {Object(o) : o \in ObjectsOf(components)}
  ELSE IF kind = "address" THEN {NewAddress(s) : s \in AddressStrings}
  ELSE {Scalar(s) : s \in ScalarStrings}

ObjectsOf(components) ==
  IF components = <<>> THEN {EmptyMap}
  ELSE LET c == Head(components)
           vs == IF Len(c.type) = 1 THEN ValuesOfKind(c.type[1], c.components)
                 ELSE {Array(q) : q \in SeqsUpTo(ValuesOfKind(c.type[1], c.components), MaxArray)}
       IN {MapPut(ov[1], c.name, ov[2]) : ov \in ObjectsOf(Tail(components)) \X vs}

ArraysOf(S, n) == {Array(q) : q \in SeqsUpTo(S, n)}

ValuesOf(param) ==
  LET t == param.type
  IN IF t[1] = "map("
     THEN LET K == ValuesOfKind(t[2], <<>>)
              V == IF t[Len(t) - 1] = "[]"
                   THEN ArraysOf(ValuesOfKind(t[4], param.components), MaxArray)
                   ELSE ValuesOfKind(t[4], param.components)
          IN ArraysOf({Array(<<kv[1], kv[2]>>) : kv \in K \X V}, MaxEntries)
     ELSE IF t[Len(t)] = "[]"
     THEN ArraysOf(ValuesOfKind(t[1], param.components), MaxArray)
     ELSE ValuesOfKind(t[1], param.components)

\* the TokensObjects that conform to a schema
RECURSIVE TokensObjectsOf(_)
TokensObjectsOf(params) ==
  IF params = <<>> THEN {EmptyMap}
  ELSE {MapPut(ov[1], Head(params).name, ov[2]) :
          ov \in TokensObjectsOf(Tail(params)) \X ValuesOf(Head(params))}

\* token instanceof Address (line 228)
IsAddress(token) == token.kind = "address"

\* serializeTokenValue (lines 227-247)
RECURSIVE serializeTokenValue(_)
serializeTokenValue(token) ==
  IF IsAddress(token) THEN Scalar(token.value)
  ELSE IF token.kind = "array"
  THEN Array([i \in 1..Len(token.items) |-> serializeTokenValue(token.items[i])])
  ELSE IF token.kind = "object"
  THEN Object([key \in DOMAIN token.fields |-> serializeTokenValue(token.fields[key])])
  ELSE token

\* serializeTokensObject (lines 223-225)
serializeTokensObject(object) == serializeTokenValue(object)

\* type.startsWith('map') (line 258)
StartsWithMap(type) == type # <<>> /\ type[1] = "map("

\* type.endsWith('[]') ? type.slice(0, -2) : type (line 259)
RawType(type) ==
  IF type # <<>> /\ type[Len(type)] = "[]" THEN SubSeq(type, 1, Len(type) - 1) ELSE type

\* type.split(','): the parts between the commas
RECURSIVE Split(_)
Split(type) ==
  IF \A i \in 1..Len(type) : type[i] # "," THEN <<type>>
  ELSE LET c == CHOOSE i \in 1..Len(type) :
                  type[i] = "," /\ \A j \in 1..(i - 1) : type[j] # ","
       IN <<SubSeq(type, 1, c - 1)>> \o Split(SubSeq(type, c + 1, Len(type)))

\* faulty variant: an address is left as the string it came as
IsAddressTypeNever(rawType) == FALSE

\* rawType == 'address' (line 280)
IsAddressType(rawType) == rawType = <<"address">>

\* parseTokenValue (lines 257-304). The tokens iterated by for...of are arrays
\* or undefined here, and iterating undefined throws a TypeError.
RECURSIVE parseTokenValue(_, _)
parseTokenValue(param, token) ==
  IF ~StartsWithMap(param.type)
  THEN LET rawType == RawType(param.type)
           isArray == rawType # param.type
       IN IF isArray
          THEN IF token.kind # "array" THEN TypeError
               ELSE LET rawParam == AbiParam(param.name, rawType, param.components)
                        result == [i \in 1..Len(token.items) |->
                                     parseTokenValue(rawParam, token.items[i])]
                    IN IF Throws(result) THEN TypeError ELSE Array(result)
          ELSE IF rawType = <<"tuple">>
          THEN IF param.components = <<>> THEN Object(EmptyMap)
               ELSE IF token.kind = "undefined" THEN TypeError
               ELSE LET names == {param.components[i].name : i \in 1..Len(param.components)}
                        component(n) == CHOOSE c \in {param.components[i] :
                                          i \in 1..Len(param.components)} : c.name = n
                        result == [n \in names |->
                                     parseTokenValue(component(n), Property(token, n))]
                    IN IF Throws(result) THEN TypeError ELSE Object(result)
          ELSE IF IsAddressType(rawType)
          THEN NewAddress(IF token.kind = "undefined" THEN "undefined" ELSE token.value)
          ELSE token
  ELSE LET parts == Split(param.type)
       IN IF Len(parts) < 2 \/ token.kind # "array" THEN TypeError
          ELSE LET keyType == SubSeq(parts[1], 2, Len(parts[1]))
                   valueType == SubSeq(parts[2], 1, Len(parts[2]) - 1)
                   pair(entry) ==
                     IF entry.kind # "array" THEN <<TypeError>>
                     ELSE LET key == IF Len(entry.items) >= 1 THEN entry.items[1] ELSE Undefined
                              value == IF Len(entry.items) >= 2 THEN entry.items[2] ELSE Undefined
                          IN <<parseTokenValue(AbiParam("", keyType, <<>>), key),
                               parseTokenValue(AbiParam("", valueType, <<>>), value)>>
                   result == [i \in 1..Len(token.items) |->
                                IF Throws(pair(token.items[i])) THEN TypeError
                                ELSE Array(pair(token.items[i]))]
               IN IF Throws(result) THEN TypeError ELSE Array(result)

\* parseTokensObject (lines 249-255)
parseTokensObject(params, object) ==
  LET names == {params[i].name : i \in 1..Len(params)}
      param(n) == CHOOSE q \in {params[i] : i \in 1..Len(params)} : q.name = n
      result == [n \in names |-> parseTokenValue(param(n), Property(object, n))]
  IN IF Throws(result) THEN TypeError ELSE Object(result)

\* a raw object with the fields of some names left out
Without(object, names) ==
  Object([n \in (DOMAIN object.fields) \ names |-> object.fields[n]])

CodecInit ==
  /\ ManagerIdle
  /\ merge = NoMerge
  /\ fold = NoFold
  /\ codec = [called |-> FALSE, op |-> "none", params |-> <<>>, missing |-> {},
              value |-> Undefined, raw |-> Undefined, parsed |-> Undefined]

\* parseTokensObject(params, serializeTokensObject(value))
RoundTrip ==
  /\ ~codec.called
  /\ \E params \in Schemas : \E object \in TokensObjectsOf(params) :
       LET value == Object(object)
           raw == serializeTokensObject(value)
       IN codec' = [called |-> TRUE, op |-> "roundTrip", params |-> params,
                    missing |-> {}, value |-> value, raw |-> raw,
                    parsed |-> parseTokensObject(params, raw)]
  /\ UNCHANGED <<manager, merge, fold>>

\* parseTokensObject(params, object) on a raw object that lacks some fields of the schema
ParseTokensObject ==
  /\ ~codec.called
  /\ \E params \in Schemas : \E object \in TokensObjectsOf(params) :
       \E missing \in (SUBSET {params[i].name : i \in 1..Len(params)}) \ {{}} :
         LET raw == Without(serializeTokensObject(Object(object)), missing)
         IN codec' = [called |-> TRUE, op |-> "parse", params |-> params,
                      missing |-> missing, value |-> Undefined, raw |-> raw,
                      parsed |-> parseTokensObject(params, raw)]
  /\ UNCHANGED <<manager, merge, fold>>

CodecNext ==
  \/ RoundTrip
  \/ ParseTokensObject

CodecSpec == CodecInit /\ [][CodecNext]_vars

\* ---------------------------------------------------------------- one call at a time
\* The provider is present, every address-scoped call is made when no other is
\* in flight, and the provider answers every call.
SerialInit == Init /\ ton

SerialNext ==
  \/ /\ pending = EmptyBag
     /\ \E eventName \in ContractEvents : \E address \in Addresses :
          Subscribe(eventName, address)
  \/ /\ pending = EmptyBag
     /\ \E id \in Ids : Resubscribe(id)
  \/ /\ pending = EmptyBag
     /\ \E id \in Ids : Unsubscribe(id)
  \/ \E p \in BagToSet(pending) : Resolve(p)

SerialSpec == SerialInit /\ [][SerialNext]_vars

\* ---------------------------------------------------------------- a history kept by mergeTransactions
\* A history starts empty and every batch the provider sends is merged into it.
HistoryInfos == [batchType : {"old", "new"}, minLt : Lts, maxLt : Lts]

\* strictly descending logical times, in the order localeCompare gives
DescendingByLt(txs) ==
  \A i \in 1..(Len(txs) - 1) : localeCompare(txs[i].lt, txs[i + 1].lt) > 0

\* minLt <= lt <= maxLt in that order
InBatchRange(lt, info) ==
  localeCompare(info.minLt, lt) <= 0 /\ localeCompare(lt, info.maxLt) <= 0

\* a 'new' batch as the provider sends it: sorted, within its bounds, and no
\* known transaction within its bounds
IsNewBatchFor(knownTransactions, newTransactions, info) ==
  /\ info.batchType = "new"
  /\ DescendingByLt(newTransactions)
  /\ \A i \in 1..Len(newTransactions) : InBatchRange(newTransactions[i].lt, info)
  /\ \A i \in 1..Len(knownTransactions) : ~InBatchRange(knownTransactions[i].lt, info)

\* an 'old' batch as the provider sends it: sorted and older than all that is known
IsOldBatchFor(knownTransactions, newTransactions, info) ==
  /\ info.batchType = "old"
  /\ DescendingByLt(newTransactions)
  /\ \A i \in 1..Len(knownTransactions) : \A j \in 1..Len(newTransactions) :
       localeCompare(newTransactions[j].lt, knownTransactions[i].lt) < 0

HistoryInit ==
  /\ ManagerIdle
  /\ merge = [called |-> FALSE, before |-> <<>>, knownTransactions |-> <<>>,
              newTransactions |-> <<>>,
              info |-> [batchType |-> "old", minLt |-> <<5>>, maxLt |-> <<5>>]]
  /\ fold = NoFold
  /\ codec = NoCodec

MergeBatch(newTransactions, info) ==
  /\ merge' = [called |-> TRUE, before |-> merge.knownTransactions,
               knownTransactions |->
                 mergeTransactions(merge.knownTransactions, newTransactions, info),
               newTransactions |-> newTransactions,
               info |-> info]
  /\ UNCHANGED <<manager, fold, codec>>

\* the batches and the batch infos of each type the provider can send
SortedBatches == {b \in SeqsUpTo(Transactions, MaxBatch) : DescendingByLt(b)}

NewInfos == {info \in HistoryInfos : info.batchType = "new"}

OldInfos == {info \in BatchInfos : info.batchType = "old"}

\* knownTransactions = mergeTransactions(knownTransactions, batch, info) for a 'new' batch
MergeNewBatch ==
  \E info \in NewInfos : \E newTransactions \in SortedBatches :
     /\ IsNewBatchFor(merge.knownTransactions, newTransactions, info)
     /\ MergeBatch(newTransactions, info)

\* the same for an 'old' batch
MergeOldBatch ==
  \E info \in OldInfos : \E newTransactions \in SortedBatches :
     /\ IsOldBatchFor(merge.knownTransactions, newTransactions, info)
     /\ MergeBatch(newTransactions, info)

HistoryNext ==
  \/ MergeNewBatch
  \/ MergeOldBatch

HistorySpec == HistoryInit /\ [][HistoryNext]_vars

\* ---------------------------------------------------------------- properties
EventOf(id) == created[id].eventName
AddressOf(id) == created[id].address

IsSubscribeStep(l) == l.op \in {"subscribe", "resubscribe"}

IsContractSub(id) == id \in DOMAIN created /\ EventOf(id) \in ContractEvents

IsGlobalSub(id) == id \in DOMAIN created /\ EventOf(id) \in GlobalEvents

SeqToSet(q) == {q[i] : i \in 1..Len(q)}

\* C1: the provider subscribe call issued by an address-scoped subscribe()
\* carries the OR of the flag-pairs of all listeners of the address, the new
\* one counted.
C1_SubscribeCarriesInterestWithNew ==
  (/\ IsSubscribeStep(last)
   /\ last.call = "subscribe"
   /\ last.error = "none")
  => last.flags = OrOf(FlagsAt(contractSubscriptions, AddressOf(last.id)))

\* C2: unsubscribe() on an active address-scoped subscription removes the id
\* from both maps (nothing else changes in them), then issues a provider
\* unsubscribe when the OR of the remaining flag-pairs is empty, a provider
\* subscribe with that OR when it is non-empty and differs from the OR before
\* the removal, and no provider call otherwise.
C2_UnsubscribeStep ==
  (/\ last'.op = "unsubscribe"
   /\ IsContractSub(last'.id)
   /\ Active(last'.id))
  => LET id == last'.id
         address == AddressOf(id)
         was == OrOf(contractSubscriptions[address])
         rest == OrOf(contractSubscriptions'[address])
     IN /\ subscriptions' = [subscriptions EXCEPT ![EventOf(id)] = @ \ {id}]
        /\ contractSubscriptions' =
             [contractSubscriptions EXCEPT ![address] = MapDelete(@, id)]
        /\ id \notin DOMAIN contractSubscriptions'[address]
        /\ last'.error = "none"
        /\ IF rest = NoFlags
           THEN last'.call = "unsubscribe"
           ELSE IF rest # was
           THEN last'.call = "subscribe" /\ last'.flags = rest
           ELSE last'.call = "none"
        /\ pending' = pending (+) SetToBag({Suspended(id, "unsubscribe", last'.call,
                                                     address, last'.flags)})

\* C2: every step that is an unsubscribe() of an active address-scoped
\* subscription is as C2_UnsubscribeStep says.
C2_Unsubscribe == [][C2_UnsubscribeStep]_vars

\* an unsubscribe() just reduced the interest of an address that keeps a listener
C2_Witness ==
  /\ last.op = "unsubscribe"
  /\ IsContractSub(last.id)
  /\ last.call = "subscribe"
  /\ last.flags # NoFlags
  /\ DOMAIN contractSubscriptions[AddressOf(last.id)] # {}

\* C3: a subscribe() whose flag-pair leaves the aggregate interest of its
\* address as it is without it issues no provider call.
C3_NoCallWhenCovered ==
  (/\ IsSubscribeStep(last)
   /\ IsContractSub(last.id)
   /\ last.error = "none"
   /\ LET cs == FlagsAt(contractSubscriptions, AddressOf(last.id))
      IN OrOf(MapDelete(cs, last.id)) = OrOf(cs))
  => last.call = "none"

\* a second {state: true, transactions: false} listener was just added to an
\* address that already had one
C3_Witness ==
  /\ last.op = "subscribe"
  /\ IsContractSub(last.id)
  /\ EventOf(last.id) = "contractStateChanged"
  /\ last.error = "none"
  /\ last.call = "none"
  /\ LET cs == contractSubscriptions[AddressOf(last.id)]
     IN /\ last.id \in DOMAIN cs
        /\ \E other \in DOMAIN cs : other # last.id /\ cs[other] = cs[last.id]

\* C4: when the provider subscribe call of an address-scoped subscribe()
\* fails, the failure reaches the caller and the id is in neither map; the
\* other entries are untouched, so the fold of the address is the fold without
\* the attempt.
C4_RollbackStep ==
  /\ (last'.op = "rejectSubscribe")
     => LET id == last'.id
            address == AddressOf(id)
        IN /\ last'.error = "ProviderError"
           /\ ~RegisteredIn(subscriptions', EventOf(id), id)
           /\ id \notin DOMAIN contractSubscriptions'[address]
           /\ subscriptions' = [subscriptions EXCEPT ![EventOf(id)] = @ \ {id}]
           /\ contractSubscriptions' =
                [contractSubscriptions EXCEPT ![address] = MapDelete(@, id)]
           /\ foldSubscriptions(ObjectValues(contractSubscriptions'[address]), NoId).before
                = foldSubscriptions(ObjectValues(contractSubscriptions[address]), id).after
  /\ (IsSubscribeStep(last') /\ last'.error = "TypeError")
     => LET id == last'.id
            eventName == created'[id].eventName
            address == created'[id].address
        IN /\ ~RegisteredIn(subscriptions', eventName, id)
           /\ id \notin DOMAIN contractSubscriptions'[address]
           /\ subscriptions' = GetEventSubscriptions(subscriptions, eventName)
           /\ FlagsAt(contractSubscriptions', address) = FlagsAt(contractSubscriptions, address)
           /\ foldSubscriptions(ObjectValues(contractSubscriptions'[address]), NoId)
                = foldSubscriptions(ObjectValues(FlagsAt(contractSubscriptions, address)), NoId)

\* C4: every failed provider subscribe call is rolled back as C4_RollbackStep says.
C4_Rollback == [][C4_RollbackStep]_vars

\* a rejected subscribe was just rolled back on an address that keeps a listener
C4_Witness ==
  /\ last.op = "rejectSubscribe"
  /\ last.error = "ProviderError"
  /\ DOMAIN contractSubscriptions[AddressOf(last.id)] # {}

\* C5: the data listeners of a subscription are invoked only while it is
\* active: registered, and its subscribe() not awaiting the provider.
C5_DeliveredOnlyWhenActive ==
  (last.op = "notify" /\ last.id \in handles) => Active(last.id)

\* C6: the callbacks a firing invokes are exactly those registered under the
\* event name when the fan-out started, each once and with the payload of the
\* firing, whatever the callbacks subscribe or unsubscribe meanwhile.
C6_FanOutStep ==
  /\ fan'.active =>
        /\ SeqToSet(fan'.invoked) \cup SeqToSet(fan'.queue) = fan'.snapshot
        /\ Len(fan'.invoked) + Len(fan'.queue) = Cardinality(fan'.snapshot)
  /\ (fan.active /\ fan'.active)
        => /\ fan'.snapshot = fan.snapshot
           /\ fan'.eventName = fan.eventName
           /\ fan'.address = fan.address
  /\ (last'.op = "fire" /\ fan'.active)
        => fan'.snapshot = subscriptions[fan'.eventName] /\ fan'.invoked = <<>>
  /\ last'.op = "fanDone" =>
        /\ SeqToSet(fan.invoked) = fan.snapshot
        /\ Len(fan.invoked) = Cardinality(fan.snapshot)

\* C6: every fan-out walks the snapshot taken at its start, as C6_FanOutStep says.
C6_FanOutOfSnapshot == [][C6_FanOutStep]_vars

\* a fan-out over two callbacks ended after one of them changed the map
C6_Witness ==
  /\ fan.active
  /\ fan.queue = <<>>
  /\ Len(fan.invoked) = 2
  /\ subscriptions[fan.eventName] # fan.snapshot

\* C7 as stated: the callbacks are invoked in the order of their (latest)
\* registration.
C7_RegistrationOrder ==
  fan.active =>
    fan.invoked \o fan.queue = fan.registration

\* C7 amended: the callbacks are invoked in ascending order of their ids.
C7_AscendingIds ==
  fan.active =>
    LET q == fan.invoked \o fan.queue
    IN \A i, j \in 1..Len(q) : i < j => q[i] < q[j]

\* a fan-out invoked two callbacks against the order of their latest registration
C7_Witness ==
  /\ fan.active
  /\ Len(fan.invoked) = 2
  /\ fan.invoked # fan.registration

\* C8: subscribe() and unsubscribe() of a global event issue no provider call
\* and leave the per-address flag map alone; they only add the id to, or
\* remove it from, the event's map.
C8_GlobalStep ==
  (/\ last'.op \in {"subscribe", "resubscribe", "unsubscribe"}
   /\ last'.id \in DOMAIN created'
   /\ created'[last'.id].eventName \in GlobalEvents)
  => LET id == last'.id
         eventName == created'[id].eventName
         S == GetEventSubscriptions(subscriptions, eventName)
     IN /\ contractSubscriptions' = contractSubscriptions
        /\ last'.call = "none"
        /\ last'.error = "none"
        /\ \A p \in BagToSet(pending') : CopiesIn(p, pending') > CopiesIn(p, pending)
                                          => p.call = "none"
        /\ subscriptions' =
             IF last'.op = "unsubscribe"
             THEN [S EXCEPT ![eventName] = @ \ {id}]
             ELSE [S EXCEPT ![eventName] = @ \cup {id}]

\* C8: every subscribe()/unsubscribe() step of a global event is as
\* C8_GlobalStep says.
C8_GlobalFrame == [][C8_GlobalStep]_vars

\* a global listener was just removed while an address has listeners
C8_Witness ==
  /\ last.op = "unsubscribe"
  /\ IsGlobalSub(last.id)
  /\ ~Registered(last.id)
  /\ \E a \in DOMAIN contractSubscriptions : DOMAIN contractSubscriptions[a] # {}

\* C9: subscribe() with an unknown event name fails and changes neither map
\* (the key set of the event map included) nor the calls in flight.
C9_UnknownEventStep ==
  (last'.error = "UnknownEvent")
  => /\ subscriptions' = subscriptions
     /\ contractSubscriptions' = contractSubscriptions
     /\ pending' = pending

\* C9: every subscribe() step with an unknown event name changes nothing.
C9_UnknownEventFrame == [][C9_UnknownEventStep]_vars

\* C10: subscribe() on an active subscription changes neither map, raises no
\* error, awaits no provider call and leaves the subscription active.
C10_ResubscribeStep ==
  (/\ last'.op = "resubscribe"
   /\ Active(last'.id))
  => /\ subscriptions' = subscriptions
     /\ contractSubscriptions' = contractSubscriptions
     /\ last'.error = "none"
     /\ last'.call = "none"
     /\ RegisteredIn(subscriptions', EventOf(last'.id), last'.id)
     /\ ~SubscribingIn(pending', last'.id)

\* C10: every subscribe() step on an active subscription is as
\* C10_ResubscribeStep says.
C10_ResubscribeIdempotent == [][C10_ResubscribeStep]_vars

\* subscribe() was just called on the registered, only listener of its address
C10_Witness ==
  /\ last.op = "resubscribe"
  /\ IsContractSub(last.id)
  /\ last.call = "none"
  /\ last.error = "none"
  /\ Active(last.id)
  /\ DOMAIN contractSubscriptions[AddressOf(last.id)] = {last.id}

\* C18: an address-scoped subscribe() issued while the provider is absent
\* waits for it: the step raises no error other than 'provider not found'.
C18_SubscribeStep ==
  (/\ IsSubscribeStep(last')
   /\ ~ton
   /\ last'.id \in DOMAIN created'
   /\ created'[last'.id].eventName \in ContractEvents)
  => last'.error \in {"none", "ProviderNotFound"}

\* C18: every address-scoped subscribe() before readiness is as C18_SubscribeStep says.
C18_SubscribeWaitsForProvider == [][C18_SubscribeStep]_vars

\* C20: once no call is in flight, every address with a registered listener
\* has had a provider subscribe call succeed since its listener set was last
\* empty.
C20_ListenersAreServed ==
  pending = EmptyBag
  => \A address \in DOMAIN contractSubscriptions :
        DOMAIN contractSubscriptions[address] # {} => address \in served

\* ---------------------------------------------------------------- properties of mergeTransactions
\* the index of the first transaction whose logical time is below maxLt, as numbers
FirstBelow(txs, maxLt) ==
  LET below == {i \in 1..Len(txs) : LtValue(txs[i].lt) < LtValue(maxLt)}
  IN IF below = {} THEN Len(txs) + 1 ELSE CHOOSE i \in below : \A j \in below : i <= j

\* C11: a 'new' batch merged into a non-empty history is inserted immediately
\* before the first known transaction whose logical time is below info.maxLt,
\* also when the decimal strings differ in length.
C11_InsertedBeforeFirstBelow ==
  (/\ merge.called
   /\ merge.info.batchType = "new"
   /\ merge.before # <<>>)
  => LET i == FirstBelow(merge.before, merge.info.maxLt)
     IN merge.knownTransactions =
          SubSeq(merge.before, 1, i - 1) \o merge.newTransactions
            \o SubSeq(merge.before, i, Len(merge.before))

\* C15: an 'old' batch is appended whole, in its order, after the known
\* transactions, whatever the logical times and the batch bounds are.
C15_OldBatchAppended ==
  (merge.called /\ merge.info.batchType = "old")
  => merge.knownTransactions = merge.before \o merge.newTransactions

\* an 'old' batch holding a later logical time than the history was appended
C15_Witness ==
  /\ merge.called
  /\ merge.info.batchType = "old"
  /\ merge.before # <<>>
  /\ Len(merge.newTransactions) = 2
  /\ LtValue(merge.newTransactions[1].lt) < LtValue(merge.newTransactions[2].lt)
  /\ \E i \in 1..Len(merge.before) :
       LtValue(merge.before[i].lt) < LtValue(merge.newTransactions[2].lt)
  /\ \E i \in 1..Len(merge.before) : merge.before[i] = merge.newTransactions[1]
  /\ LtValue(merge.info.minLt) > LtValue(merge.info.maxLt)

\* C16: the result is the known array with the batch inserted as one block:
\* nothing dropped, reordered or deduplicated, and the batch itself when the
\* known array was empty.
C16_InsertedAsOneBlock ==
  merge.called
  => /\ \E i \in 0..Len(merge.before) :
          merge.knownTransactions =
            SubSeq(merge.before, 1, i) \o merge.newTransactions
              \o SubSeq(merge.before, i + 1, Len(merge.before))
     /\ Len(merge.knownTransactions) = Len(merge.before) + Len(merge.newTransactions)
     /\ merge.before = <<>> => merge.knownTransactions = merge.newTransactions

\* a 'new' batch repeating a known transaction went into the middle of the history
C16_Witness ==
  /\ merge.called
  /\ merge.info.batchType = "new"
  /\ Len(merge.newTransactions) = 2
  /\ \E i \in 1..(Len(merge.before) - 1) :
       /\ merge.knownTransactions =
            SubSeq(merge.before, 1, i) \o merge.newTransactions
              \o SubSeq(merge.before, i + 1, Len(merge.before))
       /\ merge.before[i] # merge.newTransactions[1]
       /\ merge.before[i + 1] # merge.newTransactions[2]
  /\ \E i \in 1..Len(merge.before) : merge.before[i] = merge.newTransactions[1]

\* ---------------------------------------------------------------- properties of foldSubscriptions
\* the OR of the flag-pairs of the items that are not the excepted one (reference)
OrWithout(items, except) ==
  [state |-> \E i \in 1..Len(items) : items[i].id # except /\ items[i].state,
   transactions |-> \E i \in 1..Len(items) : items[i].id # except /\ items[i].transactions]

\* C14: before is the OR over every item, after the OR over the items other
\* than the excepted one (after = before when none is given), wherever the
\* excepted item stands; the early exit changes neither.
C14_FoldIsOr ==
  fold.called
  => /\ fold.result.before = OrWithout(fold.items, NoId)
     /\ fold.result.after = OrWithout(fold.items, fold.except)
     /\ fold.except = NoId => fold.result.after = fold.result.before

\* the loop left early, before the excepted item and a last item were visited
C14_Witness ==
  /\ fold.called
  /\ Len(fold.items) >= 3
  /\ fold.except # NoId
  /\ \E i \in 2..(Len(fold.items) - 1) :
        /\ OrWithout(SubSeq(fold.items, 1, i), fold.except)
             = [state |-> TRUE, transactions |-> TRUE]
        /\ OrWithout(SubSeq(fold.items, 1, i - 1), fold.except)
             # [state |-> TRUE, transactions |-> TRUE]
        /\ \E j \in (i + 1)..Len(fold.items) : fold.items[j].id = fold.except

\* C19: a flag of the aggregate that is true stays true when a flag-pair is added.
C19_FoldMonotone ==
  fold.grown
  => /\ fold.previous.before.state => fold.result.before.state
     /\ fold.previous.before.transactions => fold.result.before.transactions
     /\ fold.previous.after.state => fold.result.after.state
     /\ fold.previous.after.transactions => fold.result.after.transactions

\* a pair with both flags false joined, ahead of the others, a set whose aggregate had a flag true
C19_Witness ==
  /\ fold.grown
  /\ fold.items[1].id = Len(fold.items)
  /\ Len(fold.items) >= 2
  /\ ~fold.items[1].state /\ ~fold.items[1].transactions
  /\ fold.previous.after.state
  /\ ~fold.previous.after.transactions
  /\ fold.result = fold.previous

\* ---------------------------------------------------------------- properties of the token codec
RECURSIVE HasAddress(_)
HasAddress(token) ==
  \/ token.kind = "address"
  \/ \E i \in 1..Len(token.items) : HasAddress(token.items[i])
  \/ \E n \in DOMAIN token.fields : HasAddress(token.fields[n])

\* C12: a schema-conformant value without Address nodes comes back from
\* parseTokensObject(schema, serializeTokensObject(value)) as it was.
C12_RoundTrip ==
  (codec.op = "roundTrip" /\ ~HasAddress(codec.value))
  => codec.parsed = codec.value

\* C13: a schema entry whose name has no field in the raw object makes
\* parseTokensObject neither throw nor yield anything but undefined for it.
C13_MissingFieldIsUndefined ==
  codec.op = "parse"
  => /\ codec.parsed.kind = "object"
     /\ \A n \in codec.missing : codec.parsed.fields[n] = Undefined

\* raw is token with every Address, at any depth, replaced by its string
RECURSIVE Stringified(_, _)
Stringified(token, raw) ==
  IF token.kind = "address" THEN raw = Scalar(token.value)
  ELSE /\ raw.kind = token.kind
       /\ raw.value = token.value
       /\ Len(raw.items) = Len(token.items)
       /\ \A i \in 1..Len(token.items) : Stringified(token.items[i], raw.items[i])
       /\ DOMAIN raw.fields = DOMAIN token.fields
       /\ \A n \in DOMAIN token.fields : Stringified(token.fields[n], raw.fields[n])

\* the Addresses at the address-typed places of a schema entry (the value itself,
\* the elements of an array, the components of a tuple, the keys and the values
\* of a map) are in parsed what they are in value
AddressesRestored(param, value, parsed) ==
  LET t == param.type
  IN IF t[1] = "map("
     THEN /\ parsed.kind = "array"
          /\ Len(parsed.items) = Len(value.items)
          /\ \A e \in 1..Len(value.items) :
               /\ parsed.items[e].kind = "array"
               /\ Len(parsed.items[e].items) = 2
               /\ t[2] = "address" => parsed.items[e].items[1] = value.items[e].items[1]
               /\ t[4] = "address" => parsed.items[e].items[2] = value.items[e].items[2]
     ELSE (t[1] = "address" \/ param.components # <<>>) => parsed = value

\* C17: serializing puts the string of every Address in its place, at any
\* depth, and parsing that string at an address-typed schema entry (scalar,
\* array element, map key, map value) gives an Address with the same string.
C17_AddressRoundTrip ==
  codec.op = "roundTrip"
  => /\ Stringified(codec.value, codec.raw)
     /\ codec.parsed.kind = "object"
     /\ \A i \in 1..Len(codec.params) :
          LET name == codec.params[i].name
          IN AddressesRestored(codec.params[i], codec.value.fields[name],
                               codec.parsed.fields[name])

\* a map from an Address to an array of two different Addresses, and a plain
\* Address next to it, went through serializeTokensObject and parseTokensObject
C17_Witness ==
  /\ codec.op = "roundTrip"
  /\ Len(codec.params) = 2
  /\ codec.params[1].type = <<"map(", "address", ",", "address", "[]", ")">>
  /\ codec.params[2].type = <<"address">>
  /\ LET m == codec.value.fields[codec.params[1].name]
     IN /\ Len(m.items) = 1
        /\ Len(m.items[1].items[2].items) = 2
        /\ m.items[1].items[2].items[1] # m.items[1].items[2].items[2]
        /\ codec.raw.fields[codec.params[1].name].items[1].items[1]
             = Scalar(m.items[1].items[1].value)
  /\ codec.parsed = codec.value

\* ---------------------------------------------------------------- properties of the provider's view
\* C21: after non-overlapping, successful address-scoped calls, what the
\* provider was last asked for on an address is the OR of the flag-pairs of
\* the listeners registered on it, and nothing when there is none.
C21_ProviderHasNetInterest ==
  pending = EmptyBag
  => \A address \in Addresses :
       LET cs == FlagsAt(contractSubscriptions, address)
       IN provider[address] = IF DOMAIN cs = {} THEN NoInterest ELSE Interest(OrOf(cs))

\* ---------------------------------------------------------------- properties of delivery and of the maps
\* C22: the data listeners of a subscription created for an address are
\* invoked only for provider events of that address (the events considered
\* are those of an address that has a listener of the event).
C22_NotifyStep ==
  (/\ last'.op = "notify"
   /\ IsContractSub(last'.id)
   /\ last'.id \in handles
   /\ \E other \in fan.snapshot : AddressOf(other) = fan.address)
  => AddressOf(last'.id) = fan.address

\* C22: every invocation of a data listener is as C22_NotifyStep says.
C22_OnlyOwnAddress == [][C22_NotifyStep]_vars

\* C23: unsubscribe() on an address-scoped subscription whose id is not
\* registered changes neither map and issues no provider call.
C23_UnsubscribeAgainStep ==
  (/\ last'.op = "unsubscribe"
   /\ IsContractSub(last'.id)
   /\ ~RegisteredIn(subscriptions, EventOf(last'.id), last'.id)
   /\ last'.id \notin DOMAIN FlagsAt(contractSubscriptions, AddressOf(last'.id)))
  => /\ subscriptions' = subscriptions
     /\ contractSubscriptions' = contractSubscriptions
     /\ last'.call = "none"

\* C23: every unsubscribe() of an unregistered id is as C23_UnsubscribeAgainStep says.
C23_UnsubscribeIdempotent == [][C23_UnsubscribeAgainStep]_vars

\* C24: in every state, an id is in the event map of an address-scoped event
\* exactly when it is in the flag map of its address, and its flag-pair has
\* exactly one flag true, the one of its event name.
C24_MapsAgree ==
  /\ \A id \in DOMAIN created :
       EventOf(id) \in ContractEvents
       => LET flags == FlagsAt(contractSubscriptions, AddressOf(id))
          IN /\ RegisteredIn(subscriptions, EventOf(id), id) <=> id \in DOMAIN flags
             /\ id \in DOMAIN flags
                => /\ flags[id].state <=> EventOf(id) = "contractStateChanged"
                   /\ flags[id].transactions <=> EventOf(id) = "transactionsFound"
                   /\ flags[id].state # flags[id].transactions
  /\ \A address \in DOMAIN contractSubscriptions :
       \A id \in DOMAIN contractSubscriptions[address] :
          id \in DOMAIN created /\ AddressOf(id) = address
  /\ \A eventName \in ContractEvents \cap DOMAIN subscriptions :
       \A id \in subscriptions[eventName] :
          id \in DOMAIN created /\ EventOf(id) = eventName

\* a subscribe() is suspended on its provider call next to a listener of the
\* other event on the same address, after a failed subscribe() was rolled back
C24_Witness ==
  /\ last.op = "rejectSubscribe"
  /\ \E p \in BagToSet(pending) :
       /\ p.closure = "subscribe" /\ p.call = "subscribe"
       /\ p.id \in DOMAIN contractSubscriptions[p.address]
       /\ p.address = AddressOf(last.id)
       /\ EventOf(p.id) # EventOf(last.id)

\* ---------------------------------------------------------------- properties of a merged history
\* C25: a history built from the empty one by merging 'new' batches (sorted,
\* within their bounds, no known logical time within them) and 'old' batches
\* (sorted, older than all that is known) is sorted by strictly descending
\* logical time in the order the merge compares in.
C25_HistorySorted == DescendingByLt(merge.knownTransactions)

\* a 'new' batch of two went between known transactions, in a history that
\* holds logical times of both lengths
C25_Witness ==
  /\ merge.called
  /\ merge.info.batchType = "new"
  /\ Len(merge.newTransactions) = 2
  /\ \E i \in 1..(Len(merge.before) - 1) :
       merge.knownTransactions =
         SubSeq(merge.before, 1, i) \o merge.newTransactions
           \o SubSeq(merge.before, i + 1, Len(merge.before))
  /\ merge.knownTransactions[1].lt = <<5>>
  /\ Len(merge.knownTransactions) >= 4

====
